---- MODULE Spec2Model ----
(***************************************************************************)
(* Model of the test-case generator utility: the table parser              *)
(* (parseTestCases), the Excel writer (saveTestCasesToExcel), the          *)
(* generators and the three main pipelines.                                *)
(*                                                                         *)
(* A JavaScript string is a sequence of one-character strings; null and    *)
(* undefined are the two distinguished values Null and Undefined.          *)
(***************************************************************************)
EXTENDS Integers, Sequences, FiniteSets, TLC

(***************************************************************************)
(* Bounds of the model.                                                    *)
(***************************************************************************)
\* Largest number of raw lines of a text handed to one parseTestCases call.
MaxLines == 4

\* Largest number of parseTestCases calls made one after another.
MaxCalls == 3

(***************************************************************************)
(* JavaScript values and string primitives.                                *)
(***************************************************************************)
Null == <<"null">>
Undefined == <<"undefined">>

IsString(v) == v # Null /\ v # Undefined

\* The characters String.prototype.trim removes that occur in the model.
WhiteSpace == {" ", "\t", "\r", "\n"}

\* String.prototype.trim: the string from its first to its last character
\* that is not white space.
RECURSIVE FirstInk(_, _)
FirstInk(s, i) == IF i > Len(s) \/ s[i] \notin WhiteSpace THEN i ELSE FirstInk(s, i + 1)

RECURSIVE LastInk(_, _)
LastInk(s, i) == IF i < 1 \/ s[i] \notin WhiteSpace THEN i ELSE LastInk(s, i - 1)

Trim(s) == SubSeq(s, FirstInk(s, 1), LastInk(s, Len(s)))

\* String.prototype.startsWith
StartsWith(s, p) == Len(p) <= Len(s) /\ SubSeq(s, 1, Len(p)) = p

\* String.prototype.includes
Includes(s, p) ==
  \E i \in 1..(Len(s) - Len(p) + 1) : SubSeq(s, i, i + Len(p) - 1) = p

\* String.prototype.split with a one-character separator: the pieces between
\* the separators, empty pieces included; the empty string gives one piece.
RECURSIVE SplitFrom(_, _, _)
SplitFrom(s, sep, start) ==
  LET found == {i \in start..Len(s) : s[i] = sep}
  IN IF found = {} THEN <<SubSeq(s, start, Len(s))>>
     ELSE LET i == CHOOSE k \in found : \A m \in found : k <= m
          IN <<SubSeq(s, start, i - 1)>> \o SplitFrom(s, sep, i + 1)

Split(s, sep) == SplitFrom(s, sep, 1)

\* Array.prototype.map(x => x.trim())
MapTrim(xs) == [i \in 1..Len(xs) |-> Trim(xs[i])]

\* Array.prototype.filter(x => x): keeps the non-empty strings, in order.
RECURSIVE FilterTruthy(_)
FilterTruthy(xs) ==
  IF xs = <<>> THEN <<>>
  ELSE IF Head(xs) = <<>> THEN FilterTruthy(Tail(xs))
  ELSE <<Head(xs)>> \o FilterTruthy(Tail(xs))

\* Array element access: an index past the end reads undefined.
At(xs, i) == IF i \in 1..Len(xs) THEN xs[i] ELSE Undefined

(***************************************************************************)
(* State of the parser.                                                    *)
(***************************************************************************)
VARIABLES
  pc,          \* "idle", "scan", "returned", "threw": where the current call stands
  text,        \* testCasesText, the argument of the current call
  lines,       \* the trimmed non-empty lines of the text
  idx,         \* index in lines of the line the for-of loop takes next
  tableStart,  \* the loop's flag
  testCases,   \* the records appended so far
  origin,      \* history: the line each record came from
  result,      \* the value the call returned, Undefined before it returns
  calls        \* history: <<argument, outcome>> of every finished call, in order

parserVars == <<pc, text, lines, idx, tableStart, testCases, origin, result, calls>>

(***************************************************************************)
(* State of a run of main.                                                 *)
(***************************************************************************)
VARIABLES
  prog,           \* the program that runs: "Utility", "part_000" or "part_001"
  mpc,            \* where main stands: "start", "read", "generate", "parse",
                  \* "confirm", "save", "done"
  docText,        \* what the reader returned: a string or Null
  attempt,        \* the attempt the retrying generator is at
  apiCalls,       \* history: calls of the completion endpoint so far
  genText,        \* what the generator returned: a string or Null
  testCasesData,  \* what the parser returned, Undefined before
  worksheetData,  \* the grid the writer built, <<>> before
  outFile,        \* the output file: absent, as it was before the run, or written
  answer,         \* what the user answered to the overwrite question, Null if not asked
  userPath,       \* the document path the user gave: its extension, and whether
                  \* a file is there
  log,            \* history: the stages called so far, in order
  responses       \* history: what each call of the completion endpoint gave, in order

mainVars == <<prog, mpc, docText, attempt, apiCalls, genText, testCasesData,
              worksheetData, outFile, answer, userPath, log, responses>>

(***************************************************************************)
(* parseTestCases (both Excel variants).                                   *)
(***************************************************************************)
Variants == {"part_000", "part_001"}

headers ==
  <<"Test ID", "Category", "Description", "Test Steps", "Expected Result", "Test Data">>

\* The literals of the header test.
LitTestId == <<"|", " ", "T", "e", "s", "t", " ", "I", "D">>
LitCategory == <<"C", "a", "t", "e", "g", "o", "r", "y">>
LitDescription == <<"D", "e", "s", "c", "r", "i", "p", "t", "i", "o", "n">>

\* testCasesText.split('\n').map(line => line.trim()).filter(line => line)
Lines(t) == FilterTruthy(MapTrim(Split(t, "\n")))

\* line.startsWith('| Test ID') && line.includes('Category') && line.includes('Description')
IsHeaderLine(line) ==
  /\ StartsWith(line, LitTestId)
  /\ Includes(line, LitCategory)
  /\ Includes(line, LitDescription)

\* Mutant of IsRowLine: the test for the opening pipe is left out.
IsRowLineAnyStart(line) == ~StartsWith(line, <<"|", "-">>)

\* line.startsWith('|') && !line.startsWith('|-')   (tableStart is tested by the caller)
IsRowLine(line) == StartsWith(line, <<"|">>) /\ ~StartsWith(line, <<"|", "-">>)

\* Mutant of Columns: the row is cut at the pipes that stand between two
\* spaces, as in line.slice(1, -1).split(' | ').
RECURSIVE SplitSpacedFrom(_, _)
SplitSpacedFrom(s, start) ==
  LET found == {i \in start..(Len(s) - 2) : SubSeq(s, i, i + 2) = <<" ", "|", " ">>}
  IN IF found = {} THEN <<SubSeq(s, start, Len(s))>>
     ELSE LET i == CHOOSE k \in found : \A m \in found : k <= m
          IN <<SubSeq(s, start, i - 1)>> \o SplitSpacedFrom(s, i + 3)

ColumnsAtSpacedPipes(line) ==
  FilterTruthy(MapTrim(SplitSpacedFrom(SubSeq(line, 2, Len(line) - 1), 1)))

\* line.split('|').map(col => col.trim()).filter(col => col)
Columns(line) == FilterTruthy(MapTrim(Split(line, "|")))

\* Mutant of RowAccepted: >= in place of ===.
RowAcceptedAtLeast(columns) == Len(columns) >= Len(headers)

\* columns.length === headers.length
RowAccepted(columns) == Len(columns) = Len(headers)

\* Mutant of MakeRecord: the column index is off by one.
MakeRecordShifted(columns) ==
  [h \in {headers[k] : k \in 1..Len(headers)} |->
     At(columns, 1 + CHOOSE k \in 1..Len(headers) : headers[k] = h)]

\* The record built from the columns: the object literal of part_000, and
\* Object.fromEntries(headers.map((header, i) => [header, columns[i]])) of part_001.
MakeRecord(columns) ==
  [h \in {headers[k] : k \in 1..Len(headers)} |->
     At(columns, CHOOSE k \in 1..Len(headers) : headers[k] = h)]

\* The guard that opens parseTestCases in part_001:
\* !testCasesText || typeof testCasesText !== 'string'
GuardRejects(v, t) == v = "part_001" /\ (~IsString(t) \/ t = <<>>)

\* Mutant of CallThrows: a falsy argument is answered with an exception.
CallThrowsOnFalsy(v, t) == ~IsString(t) \/ t = <<>>

\* part_000 has no guard: testCasesText.split on null is a TypeError.
CallThrows(v, t) == v = "part_000" /\ ~IsString(t)

\* Mutant of ScanStart: tableStart lives outside the function and keeps its
\* value from the call before.
ScanStartStale == [tableStart |-> tableStart, testCases |-> <<>>, origin |-> <<>>]

\* The state of the scan before the first line: testCases = [], tableStart = false.
\* origin is history: origin[j] is the index in lines of the line record j came from.
ScanStart == [tableStart |-> FALSE, testCases |-> <<>>, origin |-> <<>>]

\* One iteration of the for-of loop, on the line at index i.
ScanStep(st, line, i) ==
  IF IsHeaderLine(line)
    THEN [st EXCEPT !.tableStart = TRUE]
  ELSE IF st.tableStart /\ IsRowLine(line) /\ RowAccepted(Columns(line))
    THEN [st EXCEPT !.testCases = Append(@, MakeRecord(Columns(line))),
                    !.origin = Append(@, i)]
  ELSE st

\* The whole loop over ls, from index i on.
RECURSIVE ScanFrom(_, _, _)
ScanFrom(st, ls, i) ==
  IF i > Len(ls) THEN st ELSE ScanFrom(ScanStep(st, ls[i], i), ls, i + 1)

\* return { headers, testCases }
Returned(tcs) == [headers |-> headers, testCases |-> tcs]

\* parseTestCases as a function of its argument, for callers that run it in one step.
parseTestCases(v, t) ==
  IF GuardRejects(v, t) THEN Returned(<<>>)
  ELSE Returned(ScanFrom(ScanStart, Lines(t), 1).testCases)

(***************************************************************************)
(* Inputs of the parser: texts of at most MaxLines raw lines joined by     *)
(* newlines. The lines come from one of two pools: the rows of a table,    *)
(* or what surrounds a table (separators, prose, blank lines).             *)
(***************************************************************************)
RECURSIVE Join(_, _)
Join(xs, sep) ==
  IF xs = <<>> THEN <<>>
  ELSE IF Len(xs) = 1 THEN xs[1]
  ELSE xs[1] \o <<sep>> \o Join(Tail(xs), sep)

\* A table row written without padding: |c1|c2|...|cn|
RECURSIVE Row(_)
Row(cells) == IF cells = <<>> THEN <<"|">> ELSE <<"|">> \o Head(cells) \o Row(Tail(cells))

\* | Test ID | Category | Description |
LineHeader == LitTestId \o <<" ", "|", " ">> \o LitCategory \o <<" ", "|", " ">>
                \o LitDescription \o <<" ", "|">>
\* |--|-|-|-|-|-|
LineSepTight == Row(<<<<"-", "-">>, <<"-">>, <<"-">>, <<"-">>, <<"-">>, <<"-">>>>)
\* | - | - | - | - | - | -- |
LineSepSpaced == Row(<<<<" ", "-", " ">>, <<" ", "-", " ">>, <<" ", "-", " ">>,
                       <<" ", "-", " ">>, <<" ", "-", " ">>, <<" ", "-", "-", " ">>>>)
\* | a | b | c | d | e | f f |
LineRowA == Row(<<<<" ", "a", " ">>, <<" ", "b", " ">>, <<" ", "c", " ">>,
                  <<" ", "d", " ">>, <<" ", "e", " ">>, <<" ", "f", " ", "f", " ">>>>)
\* |g|h|i|j|k|l| indented, with a carriage return at its end
LineRowB == <<" ", " ">> \o Row(<<<<"g">>, <<"h">>, <<"i">>, <<"j">>, <<"k">>, <<"l">>>>)
              \o <<"\r">>
\* |m|n|o|p|q|
LineRow5 == Row(<<<<"m">>, <<"n">>, <<"o">>, <<"p">>, <<"q">>>>)
\* |r|s|t|u|v|w|x|
LineRow7 == Row(<<<<"r">>, <<"s">>, <<"t">>, <<"u">>, <<"v">>, <<"w">>, <<"x">>>>)
\* |y| |z|y|z|y|  six cells, the second one blank
LineRowBlankCell == Row(<<<<"y">>, <<" ">>, <<"z">>, <<"y">>, <<"z">>, <<"y">>>>)
\* |-1|b|c|d|e|f|  six cells, the first one starting with a dash
LineDashFirst == Row(<<<<"-", "1">>, <<"b">>, <<"c">>, <<"d">>, <<"e">>, <<"f">>>>)
\* no table
LineProse == <<"n", "o", " ", "t", "a", "b", "l", "e">>
\* a|b|c|d|e|f  six fragments, no opening pipe
LineNoPipe == <<"a", "|", "b", "|", "c", "|", "d", "|", "e", "|", "f">>
\* a line of white space
LineBlank == <<" ", "\t">>

TablePool ==
  {LineHeader, LineRowA, LineRowB, LineRow5, LineRow7, LineRowBlankCell, LineDashFirst}

NoisePool ==
  {LineHeader, LineRowA, LineSepTight, LineSepSpaced, LineProse, LineNoPipe, LineBlank}

\* A table row written with padding: | c1 | c2 | ... | cn |
RECURSIVE RowPadded(_)
RowPadded(cells) ==
  IF cells = <<>> THEN <<"|">>
  ELSE <<"|", " ">> \o Head(cells) \o <<" ">> \o RowPadded(Tail(cells))

\* Rows of 6 intended fields, one of which holds a pipe character.
\* a, b, c|d, e, f, g: the pipe inside the third field
CellsPipeInside == <<<<"a">>, <<"b">>, <<"c", "|", "d">>, <<"e">>, <<"f">>, <<"g">>>>
\* a, b, c|, d, e, f: the pipe at the end of the third field
CellsPipeAtEnd == <<<<"a">>, <<"b">>, <<"c", "|">>, <<"d">>, <<"e">>, <<"f">>>>
\* |a, b, c, d, e, f: the pipe at the start of the first field
CellsPipeAtStart == <<<<"|", "a">>, <<"b">>, <<"c">>, <<"d">>, <<"e">>, <<"f">>>>
\* a, b, c, d, e, |: the last field is a pipe and nothing else
CellsPipeAlone == <<<<"a">>, <<"b">>, <<"c">>, <<"d">>, <<"e">>, <<"|">>>>

\* The intended fields with the line they are written as.
IntendedRows ==
  { <<CellsPipeInside, RowPadded(CellsPipeInside)>>,
    <<CellsPipeAtEnd, Row(CellsPipeAtEnd)>>,
    <<CellsPipeAtStart, RowPadded(CellsPipeAtStart)>>,
    <<CellsPipeAlone, Row(CellsPipeAlone)>> }

PipePool == {r[2] : r \in IntendedRows} \cup {LineRowA}

\* All sequences over S of length at most n.
SeqsUpTo(S, n) == UNION {[1..k -> S] : k \in 0..n}

Texts ==
  {Join(ls, "\n") : ls \in SeqsUpTo(TablePool, MaxLines) \cup SeqsUpTo(NoisePool, MaxLines)}

\* Tables whose rows may hold a pipe in a field: the header, then rows.
PipeTexts ==
  {Join(<<LineHeader>> \o ls, "\n") : ls \in SeqsUpTo(PipePool, MaxLines - 1)}

\* The arguments of the calls: the texts, and null.
Arguments == Texts \cup {Null}

\* The texts of the repeated calls.
RepeatTexts ==
  { <<>>, LineRowA, LineHeader, Join(<<LineHeader, LineRowA>>, "\n"),
    Join(<<LineHeader, LineRow7, LineRowB>>, "\n") }

vars == <<parserVars, mainVars>>

\* The outcome of a finished call: it threw, or it returned the value r.
Threw == [threw |-> TRUE]

Gave(r) == [threw |-> FALSE, value |-> r]

InitParser ==
  /\ pc = "idle"
  /\ text = <<>>
  /\ lines = <<>>
  /\ idx = 1
  /\ tableStart = FALSE
  /\ testCases = <<>>
  /\ origin = <<>>
  /\ result = Undefined
  /\ calls = <<>>

\* No run of main: the parser is called on its own.
NoMain ==
  /\ prog = "part_001"
  /\ mpc = "done"
  /\ docText = Null
  /\ attempt = 1
  /\ apiCalls = 0
  /\ genText = Null
  /\ testCasesData = Undefined
  /\ worksheetData = <<>>
  /\ outFile = [state |-> "absent", content |-> <<>>]
  /\ answer = Null
  /\ userPath = [ext |-> "", found |-> FALSE]
  /\ log = <<>>
  /\ responses = <<>>

Init == InitParser /\ NoMain

\* A call parseTestCases(t) of variant v: the guard, then the locals are set up.
Call(v, t) ==
  /\ pc # "scan"
  /\ text' = t
  /\ idx' = 1
  /\ tableStart' = ScanStart.tableStart
  /\ testCases' = ScanStart.testCases
  /\ origin' = ScanStart.origin
  /\ IF CallThrows(v, t)
       THEN /\ pc' = "threw"
            /\ lines' = <<>>
            /\ result' = Undefined
            /\ calls' = Append(calls, <<t, Threw>>)
     ELSE IF GuardRejects(v, t)
       THEN /\ pc' = "returned"
            /\ lines' = <<>>
            /\ result' = Returned(<<>>)
            /\ calls' = Append(calls, <<t, Gave(Returned(<<>>))>>)
     ELSE /\ pc' = "scan"
          /\ lines' = Lines(t)
          /\ result' = Undefined
          /\ UNCHANGED calls
  /\ UNCHANGED mainVars

\* One iteration of the for-of loop over lines.
ScanLine ==
  /\ pc = "scan"
  /\ idx <= Len(lines)
  /\ idx' = idx + 1
  /\ LET st == ScanStep([tableStart |-> tableStart, testCases |-> testCases,
                         origin |-> origin], lines[idx], idx)
     IN  /\ tableStart' = st.tableStart
         /\ testCases' = st.testCases
         /\ origin' = st.origin
  /\ UNCHANGED <<pc, text, lines, result, calls>>
  /\ UNCHANGED mainVars

\* The loop is over: return { headers, testCases }.
Return ==
  /\ pc = "scan"
  /\ idx > Len(lines)
  /\ pc' = "returned"
  /\ result' = Returned(testCases)
  /\ calls' = Append(calls, <<text, Gave(Returned(testCases))>>)
  /\ UNCHANGED <<text, lines, idx, tableStart, testCases, origin>>
  /\ UNCHANGED mainVars

\* One call of parseTestCases on any argument.
CallOnce == calls = <<>> /\ pc = "idle" /\ \E v \in Variants, t \in Arguments : Call(v, t)

Next ==
  \/ CallOnce
  \/ ScanLine
  \/ Return

Spec == Init /\ [][Next]_vars

\* One call of parseTestCases on a table with pipes in its fields.
CallPipe == calls = <<>> /\ pc = "idle" /\ \E v \in Variants, t \in PipeTexts : Call(v, t)

NextPipe ==
  \/ CallPipe
  \/ ScanLine
  \/ Return

SpecPipe == Init /\ [][NextPipe]_vars

\* Calls one after another, each on any of the repeat texts.
CallAgain ==
  /\ pc # "scan"
  /\ Len(calls) < MaxCalls
  /\ \E v \in Variants, t \in RepeatTexts : Call(v, t)

NextRepeat ==
  \/ CallAgain
  \/ ScanLine
  \/ Return

SpecRepeat == Init /\ [][NextRepeat]_vars

(***************************************************************************)
(* The three programs: Utility.js (text output, no parser), part_000 and   *)
(* part_001 (Excel output; part_001 retries the generation and asks before *)
(* it overwrites).                                                         *)
(***************************************************************************)
Programs == {"Utility", "part_000", "part_001"}

Excel == {"part_000", "part_001"}

\* const retries = 3
retries == 3

\* !x for a string or null
Falsy(x) == x = Null \/ x = Undefined \/ x = <<>>

\* String.prototype.toLowerCase, on the letters of the answers.
LowerChar(c) == CASE c = "Y" -> "y" [] c = "N" -> "n" [] OTHER -> c

ToLowerCase(x) == [i \in 1..Len(x) |-> LowerChar(x[i])]

\* The extensions of the paths the user may give.
Extensions == {".docx", ".txt", ".pdf", ".md"}

UserPaths == [ext : Extensions, found : BOOLEAN]

\* What reading a document gives: null on an error, or its text.
DocTexts == {Null, <<>>, <<"d", "o", "c">>}

\* The texts the completion endpoint may answer with.
GenTexts ==
  { <<>>, LineProse, LineHeader,
    Join(<<LineHeader, LineSepTight, LineRowA, LineRowB>>, "\n"),
    Join(<<LineHeader, LineRowB, LineRow7, LineRowA>>, "\n") }

\* A call of openai.chat.completions.create: it throws, or it answers with a
\* content that is a text or null.
ApiResponses ==
  {[throws |-> TRUE, content |-> Null]}
    \cup {[throws |-> FALSE, content |-> c] : c \in GenTexts \cup {Null}}

\* What readlineSync.question may give at the overwrite question.
Answers == {<<"y">>, <<"Y">>, <<"n">>, <<"N">>, <<"y", "e", "s">>, <<>>}

\* readDocument of Utility.js: the switch on the extension.
Supported(ext) == ext \in {".txt", ".docx", ".pdf"}

\* !userStoriesPath.toLowerCase().endsWith('.docx') || !(await fs.access(...))
\* in part_001; the other programs test the access only.
PathRefused(p, path) == (p = "part_001" /\ path.ext # ".docx") \/ ~path.found

\* Mutant of InvalidTable: the test for the header marker is left out.
InvalidTableUnlessText(r) == r.throws \/ Falsy(r.content)

\* The test of one attempt of the retrying generator:
\* !testCasesText || !testCasesText.includes('| Test ID')
InvalidTable(r) == r.throws \/ Falsy(r.content) \/ ~Includes(r.content, LitTestId)

\* Mutant of ParsedNothing: the test for an empty record sequence is left out.
ParsedNothingIgnored(d) == FALSE

\* testCasesData.testCases.length === 0
ParsedNothing(d) == Len(d.testCases) = 0

\* Mutant of Declined: any answer that starts with y goes on to the writer.
DeclinedUnlessLikeYes(a) == ~StartsWith(ToLowerCase(a), <<"y">>)

\* overwrite !== 'y'
Declined(a) == ToLowerCase(a) # <<"y">>

\* Mutant of WorksheetData: the first record is left out.
WorksheetDataSkipsFirst(d) ==
  <<d.headers>> \o
    [i \in 1..(Len(d.testCases) - 1) |->
       [k \in 1..Len(d.headers) |-> d.testCases[i + 1][d.headers[k]]]]

\* [headers, ...testCases.map(tc => headers.map(header => tc[header]))]
WorksheetData(d) ==
  <<d.headers>> \o
    [i \in 1..Len(d.testCases) |->
       [k \in 1..Len(d.headers) |-> d.testCases[i][d.headers[k]]]]

InitMain ==
  /\ prog \in Programs
  /\ mpc = "start"
  /\ docText = Null
  /\ attempt = 1
  /\ apiCalls = 0
  /\ genText = Null
  /\ testCasesData = Undefined
  /\ worksheetData = <<>>
  /\ outFile \in {[state |-> st, content |-> <<>>] :
                    st \in IF prog \in Excel THEN {"absent", "old"} ELSE {"absent"}}
  /\ answer = Null
  /\ userPath = [ext |-> "", found |-> FALSE]
  /\ log = <<>>
  /\ responses = <<>>

\* main up to the reader: the project folder is made (Excel programs; mkdir may
\* throw, which ends main), the path is asked for and tested.
MainStart(mkdirOk, path) ==
  /\ mpc = "start"
  /\ userPath' = path
  /\ mpc' = IF (prog \in Excel /\ ~mkdirOk) \/ PathRefused(prog, path)
              THEN "done" ELSE "read"
  /\ UNCHANGED <<prog, docText, attempt, apiCalls, genText, testCasesData,
                 worksheetData, outFile, answer, log, responses>>
  /\ UNCHANGED parserVars

\* The reader, and main's test of what it returned.
MainRead(r) ==
  /\ mpc = "read"
  /\ log' = Append(log, "Reader")
  /\ docText' = IF prog = "Utility" /\ ~Supported(userPath.ext) THEN Null ELSE r
  /\ mpc' = IF Falsy(docText') THEN "done" ELSE "generate"
  /\ UNCHANGED <<prog, attempt, apiCalls, genText, testCasesData, worksheetData,
                 outFile, answer, userPath, responses>>
  /\ UNCHANGED parserVars

\* Where main goes once the generator returned t.
AfterGenerate(p, t) ==
  IF Falsy(t) THEN "done" ELSE IF p = "Utility" THEN "save" ELSE "parse"

\* generateTestCases of Utility.js and part_000: one call, null if it throws.
GenerateOnce(r) ==
  /\ mpc = "generate"
  /\ prog \in {"Utility", "part_000"}
  /\ log' = Append(log, "Generator")
  /\ apiCalls' = apiCalls + 1
  /\ responses' = Append(responses, r)
  /\ genText' = IF r.throws THEN Null ELSE r.content
  /\ mpc' = AfterGenerate(prog, genText')
  /\ UNCHANGED <<prog, docText, attempt, testCasesData, worksheetData, outFile,
                 answer, userPath>>
  /\ UNCHANGED parserVars

\* One attempt of generateTestCases of part_001.
GenerateAttempt(r) ==
  /\ mpc = "generate"
  /\ prog = "part_001"
  /\ attempt <= retries
  /\ log' = IF attempt = 1 THEN Append(log, "Generator") ELSE log
  /\ apiCalls' = apiCalls + 1
  /\ responses' = Append(responses, r)
  /\ IF ~InvalidTable(r)
       THEN /\ genText' = r.content
            /\ mpc' = AfterGenerate(prog, genText')
            /\ UNCHANGED attempt
     ELSE IF attempt = retries
       THEN /\ genText' = Null
            /\ mpc' = AfterGenerate(prog, genText')
            /\ UNCHANGED attempt
     ELSE /\ attempt' = attempt + 1
          /\ UNCHANGED <<genText, mpc>>
  /\ UNCHANGED <<prog, docText, testCasesData, worksheetData, outFile, answer,
                 userPath>>
  /\ UNCHANGED parserVars

\* The parser, and main's test of what it returned.
MainParse ==
  /\ mpc = "parse"
  /\ log' = Append(log, "Parser")
  /\ testCasesData' = parseTestCases(prog, genText)
  /\ mpc' = IF ParsedNothing(testCasesData') THEN "done"
            ELSE IF prog = "part_001" THEN "confirm" ELSE "save"
  /\ UNCHANGED <<prog, docText, attempt, apiCalls, genText, worksheetData, outFile,
                 answer, userPath, responses>>
  /\ UNCHANGED parserVars

\* part_001: the output file is looked for, and the user asked if it is there.
MainConfirm(a) ==
  /\ mpc = "confirm"
  /\ IF outFile.state # "absent"
       THEN answer' = a /\ mpc' = IF Declined(a) THEN "done" ELSE "save"
       ELSE answer' = answer /\ mpc' = "save"
  /\ UNCHANGED <<prog, docText, attempt, apiCalls, genText, testCasesData,
                 worksheetData, outFile, userPath, log, responses>>
  /\ UNCHANGED parserVars

\* The writer: saveTestCasesToExcel builds the grid and writes it; saveTestCases
\* of Utility.js writes the text. A failed write leaves the file as it was.
MainSave(writeOk) ==
  /\ mpc = "save"
  /\ log' = Append(log, "Writer")
  /\ worksheetData' = IF prog \in Excel THEN WorksheetData(testCasesData) ELSE <<>>
  /\ outFile' = IF ~writeOk THEN outFile
                ELSE IF prog \in Excel
                  THEN [state |-> "written", content |-> worksheetData']
                ELSE [state |-> "written", content |-> <<genText>>]
  /\ mpc' = "done"
  /\ UNCHANGED <<prog, docText, attempt, apiCalls, genText, testCasesData, answer,
                 userPath, responses>>
  /\ UNCHANGED parserVars

NextMain ==
  \/ \E ok \in BOOLEAN, path \in UserPaths : MainStart(ok, path)
  \/ \E r \in DocTexts : MainRead(r)
  \/ \E r \in ApiResponses : GenerateOnce(r)
  \/ \E r \in ApiResponses : GenerateAttempt(r)
  \/ MainParse
  \/ \E a \in Answers : MainConfirm(a)
  \/ \E ok \in BOOLEAN : MainSave(ok)

\* A run of one of the programs; the parser is called by main only.
StartMain == InitParser /\ InitMain

SpecMain == StartMain /\ [][NextMain]_vars

(***************************************************************************)
(* Vocabulary of the properties.                                           *)
(***************************************************************************)
\* The six header names, as the properties spell them out.
HeaderNames ==
  <<"Test ID", "Category", "Description", "Test Steps", "Expected Result", "Test Data">>

HeaderNameSet ==
  {"Test ID", "Category", "Description", "Test Steps", "Expected Result", "Test Data"}

\* The cells of a row: the trimmed pieces between its pipes, without the empty
\* piece before the opening pipe and the empty piece after the closing pipe.
InnerCells(line) ==
  LET ps == MapTrim(Split(line, "|"))
      lo == IF ps[1] = <<>> THEN 2 ELSE 1
      hi == IF ps[Len(ps)] = <<>> THEN Len(ps) - 1 ELSE Len(ps)
  IN  SubSeq(ps, lo, hi)

\* A separator line: an opening pipe, then dashes (and pipes and white space) only.
IsSeparatorLine(line) ==
  /\ StartsWith(line, <<"|">>)
  /\ \E i \in 2..Len(line) : line[i] = "-"
  /\ \A i \in 2..Len(line) : line[i] \in {"-", "|"} \cup WhiteSpace

\* A header marker line occurs before line i.
HeaderBefore(i) == \E h \in 1..(i - 1) : IsHeaderLine(lines[h])

\* Record r holds the cells cs, cell k under the k-th header name.
HoldsCells(r, cs) ==
  /\ DOMAIN r = HeaderNameSet
  /\ \A k \in 1..6 : r[HeaderNames[k]] = cs[k]

\* A data row with exactly 6 pipe-separated fragments: a pipe-started line that
\* is neither a header marker nor a separator line and has 6 non-empty cells.
IsDataRow6(line) ==
  /\ StartsWith(line, <<"|">>)
  /\ ~IsHeaderLine(line)
  /\ ~IsSeparatorLine(line)
  /\ Len(InnerCells(line)) = 6
  /\ \A k \in 1..6 : InnerCells(line)[k] # <<>>

(***************************************************************************)
(* Properties of parseTestCases.                                           *)
(***************************************************************************)
\* C1: for a text made of a header marker line followed by N data rows of
\* exactly 6 pipe-separated fragments each, the call returns exactly N records,
\* in the order of the rows, record i holding fragment k of row i (trimmed)
\* under the k-th header name.
C1_WellFormedTableParsed ==
  (pc = "returned" /\ Len(lines) >= 1 /\ IsHeaderLine(lines[1])
     /\ \A i \in 2..Len(lines) : IsDataRow6(lines[i]))
  => /\ Len(result.testCases) = Len(lines) - 1
     /\ \A i \in 1..(Len(lines) - 1) :
          HoldsCells(result.testCases[i], InnerCells(lines[i + 1]))

\* C2: every record comes from a line that begins with a pipe, is not a header
\* marker line and occurs after a header marker line; with no header marker
\* line there is no record.
C2_RecordsOnlyFromTableRows ==
  /\ Len(origin) = Len(testCases)
  /\ \A j \in 1..Len(origin) :
       LET i == origin[j] IN
         /\ i \in 1..Len(lines)
         /\ StartsWith(lines[i], <<"|">>)
         /\ ~IsHeaderLine(lines[i])
         /\ HeaderBefore(i)
         /\ \A h \in HeaderNameSet :
              \E c \in 1..Len(Split(lines[i], "|")) :
                testCases[j][h] = Trim(Split(lines[i], "|")[c])
  /\ (\A i \in 1..Len(lines) : ~IsHeaderLine(lines[i])) => testCases = <<>>
  /\ pc = "returned" => result.testCases = testCases

\* A valid row stands before the header, a pipe-less six-fragment line and a
\* valid row after it: only the last line gave a record.
C2_Witness ==
  /\ pc = "returned"
  /\ Len(lines) = 4
  /\ IsDataRow6(lines[1])
  /\ IsHeaderLine(lines[2])
  /\ lines[3] = LineNoPipe
  /\ IsDataRow6(lines[4])
  /\ origin = <<4>>

\* C3: a separator line is never emitted as a record, whatever white space
\* follows its opening pipe.
C3_SeparatorNeverEmitted ==
  \A j \in 1..Len(origin) : ~IsSeparatorLine(lines[origin[j]])

\* The lines without the one at index i.
RemoveAt(ls, i) == SubSeq(ls, 1, i - 1) \o SubSeq(ls, i + 1, Len(ls))

\* Line i is a pipe-started row after the header that yields a fragment count
\* other than 6.
MalformedAt(i) ==
  /\ HeaderBefore(i)
  /\ StartsWith(lines[i], <<"|">>)
  /\ Len(Columns(lines[i])) # 6

\* C4: a pipe-started row after the header that yields a fragment count other
\* than 6 gives no record, and the records returned are those returned for the
\* same lines without that row.
C4_MalformedRowDropped ==
  pc = "returned" =>
    \A i \in 1..Len(lines) :
      MalformedAt(i) =>
        /\ \A j \in 1..Len(origin) : origin[j] # i
        /\ result.testCases = ScanFrom(ScanStart, RemoveAt(lines, i), 1).testCases

\* A 7-fragment row between two valid rows: both valid rows are returned.
C4_Witness ==
  /\ pc = "returned"
  /\ Len(lines) = 4
  /\ IsHeaderLine(lines[1])
  /\ lines[3] = LineRow7
  /\ origin = <<2, 4>>
  /\ HoldsCells(result.testCases[1], InnerCells(LineRowA))
  /\ HoldsCells(result.testCases[2], InnerCells(LineRowB))

\* Every record has exactly the 6 header names as keys, each bound to a string.
RecordsWellShaped(tcs) ==
  \A j \in 1..Len(tcs) :
    /\ DOMAIN tcs[j] = HeaderNameSet
    /\ \A h \in HeaderNameSet : tcs[j][h] # Undefined /\ tcs[j][h] # Null

C5_Shape ==
  /\ RecordsWellShaped(testCases)
  /\ pc = "returned" =>
       /\ result.headers = HeaderNames
       /\ RecordsWellShaped(result.testCases)

\* During a scan the records already appended stay as they are.
C5_AppendOnly ==
  pc = "scan" =>
    /\ Len(testCases') >= Len(testCases)
    /\ SubSeq(testCases', 1, Len(testCases)) = testCases

\* C5: the header sequence returned is the fixed one and every record has
\* exactly the 6 header names as keys, each bound to a string, at every point
\* of the scan; a record is never changed after it is appended.
C5_RecordsWellShaped == []C5_Shape /\ [][C5_AppendOnly]_vars

\* In the middle of a scan, with a record appended and lines still to come.
C5_Witness == pc = "scan" /\ Len(testCases) >= 1 /\ idx <= Len(lines)

\* What a call on a string can be seen to do: it has not thrown, and a value
\* it returned is the fixed header sequence with a record sequence, and
\* nothing else.
C6_Outcome ==
  /\ IsString(text) => pc # "threw"
  /\ \A c \in 1..Len(calls) : IsString(calls[c][1]) => ~calls[c][2].threw
  /\ pc = "returned" =>
       /\ DOMAIN result = {"headers", "testCases"}
       /\ result.headers = HeaderNames
       /\ DOMAIN result.testCases = 1..Len(result.testCases)

\* The scan cannot go on for ever: it stands at a line of the text or just
\* past the last one, and every step that stays in the scan moves one line on.
C6_Progress ==
  pc = "scan" =>
    /\ idx \in 1..(Len(lines) + 1)
    /\ pc' \in {"scan", "returned"}
    /\ pc' = "scan" => idx' = idx + 1 /\ lines' = lines

\* C6: a call on a string never throws and returns: the value returned is the
\* fixed header sequence with a possibly empty record sequence, and nothing else.
C6_NeverThrows == []C6_Outcome /\ [][C6_Progress]_vars

\* A table whose rows are all malformed was scanned to its end: no record.
C6_Witness ==
  /\ pc = "returned"
  /\ lines = <<LineHeader, LineRow5, LineRow7, LineRowBlankCell>>
  /\ result.testCases = <<>>

\* C7: a pipe-started row after the header with 6 cells between its outer
\* pipes, empty cells counted, yields a record holding these cells.
C7_OnlyOuterEmptyDropped ==
  pc = "returned" =>
    \A i \in 1..Len(lines) :
      (/\ HeaderBefore(i)
       /\ IsRowLine(lines[i])
       /\ ~IsHeaderLine(lines[i])
       /\ Len(InnerCells(lines[i])) = 6)
      => \E j \in 1..Len(origin) :
           origin[j] = i /\ HoldsCells(testCases[j], InnerCells(lines[i]))

\* C10: two finished calls on the same text have the same outcome, whatever
\* calls were made in between.
C10_Deterministic ==
  \A a, b \in 1..Len(calls) : calls[a][1] = calls[b][1] => calls[a][2] = calls[b][2]

\* The same table parsed first and third, another text in between.
C10_Witness ==
  /\ Len(calls) = 3
  /\ calls[1][1] = calls[3][1]
  /\ calls[2][1] # calls[1][1]
  /\ ~calls[3][2].threw
  /\ Len(calls[3][2].value.testCases) >= 1

(***************************************************************************)
(* Properties of the programs.                                             *)
(***************************************************************************)
\* The stages in the order a program calls them.
StageOrder(p) ==
  IF p \in Excel THEN <<"Reader", "Generator", "Parser", "Writer">>
  ELSE <<"Reader", "Generator", "Writer">>

Called(stage) == \E i \in 1..Len(log) : log[i] = stage

\* C8: the stages are called in the order Reader, Generator, Parser (where
\* there is one), Writer; the generator only for a document found and read to
\* a non-empty text, the parser only for a non-null generated text, the writer
\* only after all of them and, in the Excel programs, at least one record; no
\* output file is written without the writer.
C8_StagesShortCircuit ==
  /\ Len(log) <= Len(StageOrder(prog))
  /\ log = SubSeq(StageOrder(prog), 1, Len(log))
  /\ Called("Generator") =>
       userPath.found /\ docText # Null /\ docText # <<>>
  /\ apiCalls > 0 => Called("Generator")
  /\ Called("Parser") => genText # Null
  /\ Called("Writer") =>
       /\ userPath.found /\ docText # Null /\ docText # <<>>
       /\ genText # Null
       /\ prog \in Excel => Called("Parser") /\ Len(testCasesData.testCases) >= 1
  /\ outFile.state = "written" => Called("Writer")

\* part_001 ran through all four stages and wrote the file.
C8_Witness ==
  /\ prog = "part_001"
  /\ log = <<"Reader", "Generator", "Parser", "Writer">>
  /\ outFile.state = "written"

\* C9: the grid the writer builds has 1 + (number of records) rows: row 0 is
\* the header sequence, row i+1 holds record i of the parser's output, the
\* field for header k in column k.
C9_GridMatchesRecords ==
  (Called("Writer") /\ prog \in Excel) =>
    /\ testCasesData = parseTestCases(prog, genText)
    /\ Len(worksheetData) = 1 + Len(testCasesData.testCases)
    /\ worksheetData[1] = HeaderNames
    /\ \A i \in 1..Len(testCasesData.testCases) :
         /\ Len(worksheetData[i + 1]) = 6
         /\ \A k \in 1..6 :
              worksheetData[i + 1][k] = testCasesData.testCases[i][HeaderNames[k]]
    /\ outFile.state = "written" => outFile.content = worksheetData

\* A grid of three rows was written: the header, row B, row A in the order of
\* the text.
C9_Witness ==
  /\ Called("Writer")
  /\ prog \in Excel
  /\ outFile.state = "written"
  /\ Len(worksheetData) = 3
  /\ worksheetData[2] = InnerCells(Trim(LineRowB))
  /\ worksheetData[3] = InnerCells(LineRowA)

(***************************************************************************)
(* Properties of the second group.                                         *)
(***************************************************************************)
HasPipe(x) == \E i \in 1..Len(x) : x[i] = "|"

\* C11: a row written from 6 intended fields, one of which holds a pipe,
\* never gives a record carrying that field: when the call has returned, the
\* row either gave no record, its fragment count differing from 6 if it got
\* as far as the count, or it gave a record whose fields are not the intended
\* ones; and no field of any record holds a pipe.
C11_PipeValueNeverReturned ==
  /\ \A j \in 1..Len(testCases) : \A h \in DOMAIN testCases[j] :
       ~HasPipe(testCases[j][h])
  /\ pc = "returned" =>
       \A i \in 1..Len(lines) : \A r \in IntendedRows :
         lines[i] = Trim(r[2]) =>
           /\ \A j \in 1..Len(result.testCases) :
                origin[j] = i =>
                  /\ ~HoldsCells(result.testCases[j], r[1])
                  /\ \A k \in 1..6 :
                       HasPipe(r[1][k]) => result.testCases[j][HeaderNames[k]] # r[1][k]
           /\ (\A j \in 1..Len(origin) : origin[j] # i) =>
                Len(Columns(lines[i])) # 6

\* The row with c| as its third field gave a record with c there; the row with
\* c|d gave none.
C11_Witness ==
  /\ pc = "returned"
  /\ lines = <<LineHeader, Row(CellsPipeAtEnd), RowPadded(CellsPipeInside)>>
  /\ origin = <<2>>
  /\ result.testCases[1]["Description"] = <<"c">>

\* A response the retrying generator accepts: the call did not throw and its
\* text contains '| Test ID'.
HasTable(r) == ~r.throws /\ IsString(r.content) /\ Includes(r.content, LitTestId)

\* The retrying generator has returned to main.
GeneratorReturned == Called("Generator") /\ mpc # "generate"

\* C12: at every point of the retrying generator, at most 3 calls of the
\* completion endpoint were made and every response but the last one was
\* unacceptable (it threw, was empty, or lacked '| Test ID'); while the
\* generator runs, fewer than 3 calls were made, none acceptable, and the
\* attempt is the next call; once it returned, it returned the text of its
\* last response if that was acceptable, and null after exactly 3 unacceptable
\* ones; what it returned is null or contains '| Test ID'.
C12_Outcome ==
  prog = "part_001" =>
    /\ apiCalls = Len(responses)
    /\ Len(responses) <= retries
    /\ \A i \in 1..(Len(responses) - 1) : ~HasTable(responses[i])
    /\ (mpc = "generate" /\ Called("Generator")) =>
         /\ Len(responses) < retries
         /\ ~HasTable(responses[Len(responses)])
         /\ attempt = Len(responses) + 1
    /\ GeneratorReturned =>
         /\ Len(responses) >= 1
         /\ IF HasTable(responses[Len(responses)])
              THEN genText = responses[Len(responses)].content
              ELSE Len(responses) = retries /\ genText = Null
    /\ genText = Null \/ (IsString(genText) /\ Includes(genText, LitTestId))

\* C12: a step of the retrying generator makes one call, and either returns
\* to main or moves to the next attempt; after it returned, no step makes a call.
C12_Progress ==
  prog = "part_001" =>
    /\ (mpc = "generate" /\ mpc' # mpc) \/ attempt' # attempt \/ responses' = responses
    /\ responses' # responses =>
         /\ mpc = "generate"
         /\ Len(responses') = Len(responses) + 1
         /\ mpc' = "generate" <=> (~HasTable(responses'[Len(responses')]) /\ Len(responses') < retries)

C12_RetriesBounded == []C12_Outcome /\ [][C12_Progress]_vars

\* The third call gave a table after a call that threw and a call that gave prose.
C12_Witness ==
  /\ prog = "part_001"
  /\ GeneratorReturned
  /\ Len(responses) = retries
  /\ responses[1].throws
  /\ responses[2] = [throws |-> FALSE, content |-> LineProse]
  /\ HasTable(responses[3])
  /\ genText = responses[3].content

\* The answer to the overwrite question is y, in either case.
SaidYes == answer \in {<<"y">>, <<"Y">>}

\* The output file as it was before the run, when it was there.
ExistingFile == [state |-> "old", content |-> <<>>]

\* C13: in the retrying program, with the output file there, the writer is
\* only ever about to be called, or called, after the answer y or Y; after any
\* other answer main has ended, the writer was not called and the file is as
\* it was.
C13_Outcome ==
  prog = "part_001" =>
    /\ (outFile = ExistingFile /\ (mpc = "save" \/ Called("Writer"))) => SaidYes
    /\ (answer # Null /\ Called("Writer")) => SaidYes
    /\ (answer # Null /\ ~SaidYes) =>
         /\ mpc = "done"
         /\ ~Called("Writer")
         /\ outFile = ExistingFile

\* C13: the question is asked only of an existing file and answered once; a
\* step that calls the writer on an existing file, or changes that file,
\* follows the answer y or Y.
C13_Step ==
  prog = "part_001" =>
    /\ answer' # answer => (answer = Null /\ outFile = ExistingFile /\ outFile' = outFile)
    /\ (outFile = ExistingFile /\ (log' # log /\ Called("Writer")')) => SaidYes
    /\ (outFile = ExistingFile /\ outFile' # outFile) => SaidYes

C13_OverwriteOnlyOnYes == []C13_Outcome /\ [][C13_Step]_vars

\* The user answered yes to the question about the existing file: main ended
\* after the parser, and the file is as it was.
C13_Witness ==
  /\ prog = "part_001"
  /\ answer = <<"y", "e", "s">>
  /\ mpc = "done"
  /\ log = <<"Reader", "Generator", "Parser">>
  /\ outFile = ExistingFile

====
